---- MODULE Spec2Model ----
(***************************************************************************)
(* Model of the prediction / value-bet reconciliation core of              *)
(* src/pages/PredictionsView.tsx: the two React state cells                *)
(* savedPredictions and valueBets, and the three handlers that update them *)
(* (handleSavePrediction, handleSaveValueBet, handleUpdateValueBet).       *)
(*                                                                         *)
(* A handler enqueues functional updaters (setX(prev => ...)); React       *)
(* applies them in order to the current state and re-renders, which gives  *)
(* the next handlers a closure over the new savedPredictions.  One action  *)
(* below is one dispatched event: the handler, its updaters and the        *)
(* re-render that follows it.                                              *)
(***************************************************************************)
EXTENDS Integers, Sequences, FiniteSets, TLC

\* Largest number of records the Value-Bet Store is let grow to.
MaxBets == 2

----------------------------------------------------------------------------
\* JavaScript values

\* match.id is optional in a Match: the adapter never sets it.
Undefined == "undefined"

\* An optional array (MatchPrediction.valueBets?): absent, or one array.
Absent == <<>>
Present(arr) == <<arr>>
IsAbsent(opt) == opt = <<>>

\* (opt || []): an absent array reads as the empty one.
OrEmpty(opt) == IF IsAbsent(opt) THEN <<>> ELSE opt[1]

\* Array.prototype.findIndex, given the set of (1-based) indices at which the
\* callback holds: the least of them; 0 stands for JavaScript's -1.
FindIndex(hits) ==
    IF hits = {} THEN 0 ELSE CHOOSE i \in hits : \A j \in hits : i <= j

----------------------------------------------------------------------------
\* Records

MkBet(matchId, type, odds) ==
    [matchId |-> matchId, pattern |-> [type |-> type], odds |-> odds]

MkMatch(id, home, away, date) ==
    [id |-> id, home_team |-> home, away_team |-> away, date |-> date]

MkPrediction(match, result, bets) ==
    [match |-> match, predictedResult |-> result, valueBets |-> bets]

\* The bets the tracker can hand to onSaveBet / onUpdateBet: two versions of
\* one key, a second pattern type for the same match, and another match.
BetInputs ==
    { MkBet("A-B-2024-01-01", "t1", 1),
      MkBet("A-B-2024-01-01", "t1", 2),
      MkBet("A-B-2024-01-01", "t2", 1),
      MkBet("m1", "t1", 1) }

\* The predictions the prediction system can hand to onSavePrediction: one
\* fixture on two dates without an explicit id (adapter output), and a second
\* fixture sharing the home team, whose explicit id is the first one's
\* composite key and which already carries a bet, and a third fixture
\* sharing the away team, with an explicit id of its own.
PredictionInputs ==
    { MkPrediction(MkMatch(Undefined, "A", "B", "2024-01-01"), "home_win", Absent),
      MkPrediction(MkMatch(Undefined, "A", "B", "2024-01-02"), "draw", Absent),
      MkPrediction(MkMatch("A-B-2024-01-01", "A", "C", "2024-01-01"), "away_win",
                   Present(<<MkBet("A-B-2024-01-01", "t1", 1)>>)),
      MkPrediction(MkMatch("m1", "C", "B", "2024-01-01"), "draw", Absent) }

----------------------------------------------------------------------------
VARIABLES
    savedPredictions,   \* useState<MatchPrediction[]>([])
    valueBets,          \* useState<ValueBet[]>([])
    rendered,           \* savedPredictions as captured by the handlers' closure
    toasts,             \* number of toast.success calls so far
    lastEvent,          \* the event processed last: [op, arg]
    repeated            \* whether the event before it was the same event

vars == <<savedPredictions, valueBets, rendered, toasts, lastEvent, repeated>>

NoEvent == [op |-> "none"]
Event(op, arg) == [op |-> op, arg |-> arg]

Init ==
    /\ savedPredictions = <<>>
    /\ valueBets = <<>>
    /\ rendered = <<>>
    /\ toasts = 0
    /\ lastEvent = NoEvent
    /\ repeated = FALSE

----------------------------------------------------------------------------
\* handleSavePrediction

\* A match test that also compares the date.
SameFixtureAndDate(p, prediction) ==
    /\ p.match.home_team = prediction.match.home_team
    /\ p.match.away_team = prediction.match.away_team
    /\ p.match.date = prediction.match.date

SameFixture(p, prediction) ==
    /\ p.match.home_team = prediction.match.home_team
    /\ p.match.away_team = prediction.match.away_team

existingIndex(prev, prediction) ==
    FindIndex({ i \in 1..Len(prev) : SameFixture(prev[i], prediction) })

\* An upsert that tests existingIndex > 0 on the 0-based index: a match at
\* the head of the array is taken for "not found".
savePredictionSkipHead(prev, prediction) ==
    IF existingIndex(prev, prediction) > 1
    THEN [prev EXCEPT ![existingIndex(prev, prediction)] = prediction]
    ELSE Append(prev, prediction)

\* An upsert that moves the replaced record to the end of the array.
savePredictionBump(prev, prediction) ==
    LET i == existingIndex(prev, prediction)
    IN  IF i > 0
        THEN Append(SubSeq(prev, 1, i - 1) \o SubSeq(prev, i + 1, Len(prev)), prediction)
        ELSE Append(prev, prediction)

savePredictionUpdater(prev, prediction) ==
    IF existingIndex(prev, prediction) > 0
    THEN [prev EXCEPT ![existingIndex(prev, prediction)] = prediction]
    ELSE Append(prev, prediction)

\* A notification on every save, replacing or not.
toastOnEverySave(prev, prediction) == 1

savePredictionToasts(prev, prediction) ==
    IF existingIndex(prev, prediction) > 0 THEN 0 ELSE 1

\* The handler call alone: its updaters take effect, the closure is not
\* refreshed.
callSavePrediction(prediction) ==
    /\ savedPredictions' = savePredictionUpdater(savedPredictions, prediction)
    /\ toasts' = toasts + savePredictionToasts(savedPredictions, prediction)
    /\ lastEvent' = Event("save", prediction)
    /\ repeated' = (lastEvent = lastEvent')
    /\ UNCHANGED valueBets

\* The handler call and the re-render that follows it.
handleSavePrediction(prediction) ==
    /\ callSavePrediction(prediction)
    /\ rendered' = savedPredictions'

----------------------------------------------------------------------------
\* handleSaveValueBet

\* `${home_team}-${away_team}-${date}`
fallbackKey(match) ==
    match.home_team \o "-" \o match.away_team \o "-" \o match.date

\* A resolution that compares the explicit id only.
ResolvesByIdOnly(prediction, bet) ==
    prediction.match.id # Undefined /\ prediction.match.id = bet.matchId

\* The condition of the attach step: explicit id, else the composite key.
Resolves(prediction, bet) ==
    \/ (prediction.match.id # Undefined /\ prediction.match.id = bet.matchId)
    \/ fallbackKey(prediction.match) = bet.matchId

\* An add that replaces a record with the same key instead of appending.
appendUnlessKeyPresent(prev, bet) ==
    IF \E i \in 1..Len(prev) :
          prev[i].matchId = bet.matchId /\ prev[i].pattern.type = bet.pattern.type
    THEN [i \in 1..Len(prev) |->
            IF prev[i].matchId = bet.matchId /\ prev[i].pattern.type = bet.pattern.type
            THEN bet ELSE prev[i]]
    ELSE Append(prev, bet)

appendBetUpdater(prev, bet) == Append(prev, bet)

\* An attach that does not look at the match: every prediction takes the bet.
attachWithoutResolving(prediction, bet) ==
    [prediction EXCEPT
        !.valueBets = Present(Append(OrEmpty(prediction.valueBets), bet))]

attachToPrediction(prediction, bet) ==
    IF Resolves(prediction, bet)
    THEN [prediction EXCEPT
            !.valueBets = Present(Append(OrEmpty(prediction.valueBets), bet))]
    ELSE prediction

\* An attach written with filter: predictions that do not resolve are dropped.
attachAndFilter(prev, bet) ==
    LET kept == SelectSeq(prev, LAMBDA prediction : Resolves(prediction, bet))
    IN  [i \in 1..Len(kept) |-> attachToPrediction(kept[i], bet)]

\* An attach that stops at the first resolving prediction.
attachFirstOnly(prev, bet) ==
    LET first == FindIndex({ i \in 1..Len(prev) : Resolves(prev[i], bet) })
    IN  IF first > 0
        THEN [prev EXCEPT ![first] = attachToPrediction(prev[first], bet)]
        ELSE prev

attachUpdater(prev, bet) ==
    [i \in 1..Len(prev) |-> attachToPrediction(prev[i], bet)]

\* The attach updater is enqueued only if the closure's savedPredictions
\* is non-empty.
attachGuard(closure) == Len(closure) > 0

callSaveValueBet(bet) ==
    /\ Len(valueBets) < MaxBets
    /\ valueBets' = appendBetUpdater(valueBets, bet)
    /\ savedPredictions' =
          IF attachGuard(rendered)
          THEN attachUpdater(savedPredictions, bet)
          ELSE savedPredictions
    /\ lastEvent' = Event("add", bet)
    /\ repeated' = (lastEvent = lastEvent')
    /\ UNCHANGED toasts

handleSaveValueBet(bet) ==
    /\ callSaveValueBet(bet)
    /\ rendered' = savedPredictions'

----------------------------------------------------------------------------
\* handleUpdateValueBet

SameKey(bet, updatedBet) ==
    /\ bet.matchId = updatedBet.matchId
    /\ bet.pattern.type = updatedBet.pattern.type

\* A replacement that stops at the first record with the key.
replaceFirstBet(bets, updatedBet) ==
    LET first == FindIndex({ i \in 1..Len(bets) : SameKey(bets[i], updatedBet) })
    IN  IF first > 0 THEN [bets EXCEPT ![first] = updatedBet] ELSE bets

replaceBets(bets, updatedBet) ==
    [i \in 1..Len(bets) |-> IF SameKey(bets[i], updatedBet) THEN updatedBet ELSE bets[i]]

\* An update that replaces only the first record with the key.
updateFirstBetUpdater(prev, updatedBet) == replaceFirstBet(prev, updatedBet)

\* An update that falls back to insert when no record has the key.
upsertBetUpdater(prev, updatedBet) ==
    IF \E i \in 1..Len(prev) : SameKey(prev[i], updatedBet)
    THEN replaceBets(prev, updatedBet)
    ELSE Append(prev, updatedBet)

updateBetUpdater(prev, updatedBet) == replaceBets(prev, updatedBet)

\* prediction.valueBets.some(bet => same key as updatedBet)
hasBet(bets, updatedBet) ==
    \E i \in 1..Len(bets) : SameKey(bets[i], updatedBet)

reattachToPrediction(prediction, updatedBet) ==
    IF IsAbsent(prediction.valueBets)
    THEN prediction
    ELSE IF hasBet(prediction.valueBets[1], updatedBet)
         THEN [prediction EXCEPT
                 !.valueBets = Present(replaceBets(prediction.valueBets[1], updatedBet))]
         ELSE prediction

\* A reattach that runs only when the Value-Bet Store held the key.
reattachIfStored(prev, updatedBet) ==
    IF \E i \in 1..Len(valueBets) : SameKey(valueBets[i], updatedBet)
    THEN [i \in 1..Len(prev) |-> reattachToPrediction(prev[i], updatedBet)]
    ELSE prev

reattachUpdater(prev, updatedBet) ==
    [i \in 1..Len(prev) |-> reattachToPrediction(prev[i], updatedBet)]

callUpdateValueBet(updatedBet) ==
    /\ valueBets' = updateBetUpdater(valueBets, updatedBet)
    /\ savedPredictions' = reattachUpdater(savedPredictions, updatedBet)
    /\ lastEvent' = Event("update", updatedBet)
    /\ repeated' = (lastEvent = lastEvent')
    /\ UNCHANGED toasts

handleUpdateValueBet(updatedBet) ==
    /\ callUpdateValueBet(updatedBet)
    /\ rendered' = savedPredictions'

----------------------------------------------------------------------------
\* Active-prediction selector, evaluated at render on the closure's
\* savedPredictions.

\* null, against a one-element tuple holding the prediction.
Null == <<>>

\* A selector that returns the oldest record.
getFirstPrediction(closure) ==
    IF Len(closure) = 0 THEN Null ELSE <<closure[1]>>

getActivePrediction(closure) ==
    IF Len(closure) = 0 THEN Null ELSE <<closure[Len(closure)]>>

\* activePrediction?.valueBets || []
activePredictionBets(activePrediction) ==
    IF activePrediction = Null THEN <<>> ELSE OrEmpty(activePrediction[1].valueBets)

----------------------------------------------------------------------------
\* generateAdvancedPrediction.  runPrediction and the clock are outside the
\* component: its output and the current instant are arguments here.

\* What runPrediction can return: the winner signal ("undefined" when the
\* field is absent) and a confidence; the remaining fields are passed through.
ModelOutputs ==
    { [ predictedWinner |-> w,
        confidence |-> c,
        modelPredictions |-> [poisson |-> [homeGoals |-> 2, awayGoals |-> 1]],
        patterns |-> <<"p1">>,
        homeExpectedGoals |-> 2,
        awayExpectedGoals |-> 1 ] :
      w \in {"home", "away", "draw", "tie", Undefined}, c \in {55, 80} }

\* The team names the prediction system can pass, the empty string included.
TeamNames == {"", "A", "B"}

\* new Date().toISOString()
Instants == {"2024-01-01", "2024-01-02"}

\* A winner mapping whose catch-all is the away side.
predictedResultAwayDefault(advancedPrediction) ==
    IF advancedPrediction.predictedWinner = "home" THEN "home_win"
    ELSE IF advancedPrediction.predictedWinner = "draw" THEN "draw"
    ELSE "away_win"

predictedResult(advancedPrediction) ==
    IF advancedPrediction.predictedWinner = "home" THEN "home_win"
    ELSE IF advancedPrediction.predictedWinner = "away" THEN "away_win"
    ELSE "draw"

\* The match object and the prediction built from it.  The match has no id
\* and the prediction no valueBets.
adaptedPrediction(homeTeam, awayTeam, advancedPrediction, now) ==
    [ match |-> [ id |-> Undefined,
                  date |-> now,
                  home_team |-> homeTeam,
                  away_team |-> awayTeam,
                  home_score |-> 0,
                  away_score |-> 0,
                  ht_home_score |-> 0,
                  ht_away_score |-> 0 ],
      predictedResult |-> predictedResult(advancedPrediction),
      confidenceLevel |-> advancedPrediction.confidence,
      predictedScore |-> [ home |-> advancedPrediction.modelPredictions.poisson.homeGoals,
                           away |-> advancedPrediction.modelPredictions.poisson.awayGoals ],
      patterns |-> advancedPrediction.patterns,
      htftAnalysis |-> <<>>,
      headToHead |-> [ homeTeam |-> homeTeam,
                       awayTeam |-> awayTeam,
                       totalMatches |-> 0,
                       homeWins |-> 0,
                       draws |-> 0,
                       awayWins |-> 0,
                       homeGoals |-> 0,
                       awayGoals |-> 0,
                       bothTeamsScored |-> 0,
                       avgTotalGoals |-> advancedPrediction.homeExpectedGoals
                                            + advancedPrediction.awayExpectedGoals,
                       htftReversals |-> 0 ],
      valueBets |-> Absent ]

\* An adapter that rejects an empty home team only.
generateCheckingHomeOnly(homeTeam, awayTeam, advancedPrediction, now) ==
    IF homeTeam = ""
    THEN Null
    ELSE <<adaptedPrediction(homeTeam, awayTeam, advancedPrediction, now)>>

generateAdvancedPrediction(homeTeam, awayTeam, advancedPrediction, now) ==
    IF homeTeam = "" \/ awayTeam = ""
    THEN Null
    ELSE <<adaptedPrediction(homeTeam, awayTeam, advancedPrediction, now)>>

\* A call of generateAdvancedPrediction by the prediction system, recorded
\* with its arguments and its result.
callGenerateAdvancedPrediction(homeTeam, awayTeam, advancedPrediction, now) ==
    /\ lastEvent' = Event("adapt",
                          [ homeTeam |-> homeTeam,
                            awayTeam |-> awayTeam,
                            advancedPrediction |-> advancedPrediction,
                            result |-> generateAdvancedPrediction(
                                          homeTeam, awayTeam, advancedPrediction, now) ])
    /\ repeated' = (lastEvent = lastEvent')
    /\ UNCHANGED <<savedPredictions, valueBets, rendered, toasts>>

NextAdapter ==
    \E homeTeam \in TeamNames, awayTeam \in TeamNames,
       advancedPrediction \in ModelOutputs, now \in Instants :
        callGenerateAdvancedPrediction(homeTeam, awayTeam, advancedPrediction, now)

SpecAdapter == Init /\ [][NextAdapter]_vars

----------------------------------------------------------------------------
Next ==
    \/ \E prediction \in PredictionInputs : handleSavePrediction(prediction)
    \/ \E bet \in BetInputs : handleSaveValueBet(bet)
    \/ \E updatedBet \in BetInputs : handleUpdateValueBet(updatedBet)

Spec == Init /\ [][Next]_vars

\* Handler calls that share a React batch: the calls of one batch run on the
\* closure of the last render, and one re-render follows the batch.
Render ==
    /\ rendered # savedPredictions
    /\ rendered' = savedPredictions
    /\ UNCHANGED <<savedPredictions, valueBets, toasts, lastEvent, repeated>>

BatchedPredictionInputs ==
    { p \in PredictionInputs : IsAbsent(p.valueBets) /\ p.match.date = "2024-01-01" }

BatchedBetInputs == { b \in BetInputs : b.pattern.type = "t1" }

NextBatched ==
    \/ \E prediction \in BatchedPredictionInputs :
          callSavePrediction(prediction) /\ UNCHANGED rendered
    \/ \E bet \in BatchedBetInputs :
          callSaveValueBet(bet) /\ UNCHANGED rendered
    \/ \E updatedBet \in BatchedBetInputs :
          callUpdateValueBet(updatedBet) /\ UNCHANGED rendered
    \/ Render

SpecBatched == Init /\ [][NextBatched]_vars

\* The predictions saved when every save passes a record without valueBets:
\* adapter output for one fixture at two instants, and the record of
\* PredictionInputs that has an explicit id and no valueBets.
BarePredictionInputs ==
    { generateAdvancedPrediction("A", "B", advancedPrediction, now)[1] :
        advancedPrediction \in { o \in ModelOutputs :
                                   o.predictedWinner = "home" /\ o.confidence = 80 },
        now \in Instants }
    \cup { p \in PredictionInputs : IsAbsent(p.valueBets) /\ p.match.id # Undefined }

NextBare ==
    \/ \E prediction \in BarePredictionInputs : handleSavePrediction(prediction)
    \/ \E bet \in BetInputs : handleSaveValueBet(bet)
    \/ \E updatedBet \in BetInputs : handleUpdateValueBet(updatedBet)

SpecBare == Init /\ [][NextBare]_vars

----------------------------------------------------------------------------
\* Properties

\* The step just taken is a re-render and no handler call.
Rendered ==
    /\ rendered' # rendered
    /\ UNCHANGED <<savedPredictions, valueBets, toasts, lastEvent, repeated>>

\* The step just taken processed an event of this kind; its argument is
\* lastEvent'.arg.
Processed(op) == lastEvent'.op = op /\ ~Rendered

FixtureIndices(store, prediction) ==
    { i \in 1..Len(store) : SameFixture(store[i], prediction) }

KeyIndices(bets, bet) ==
    { i \in 1..Len(bets) : SameKey(bets[i], bet) }

\* C1: the Prediction Store never holds two records whose match has the same
\* (home_team, away_team) pair.
C1_OneRecordPerFixture ==
    \A i, j \in 1..Len(savedPredictions) :
        i # j => ~( /\ savedPredictions[i].match.home_team = savedPredictions[j].match.home_team
                    /\ savedPredictions[i].match.away_team = savedPredictions[j].match.away_team )

\* A fixture was saved again on another date while a second fixture and a bet
\* were in the stores.
C1_Witness ==
    /\ lastEvent.op = "save"
    /\ Len(savedPredictions) >= 2
    /\ savedPredictions[1] = lastEvent.arg
    /\ lastEvent.arg.match.date = "2024-01-02"
    /\ Len(valueBets) >= 1

\* C2: every bet of the Value-Bet Store whose matchId resolves to a prediction
\* of the Prediction Store appears in that prediction's valueBets, exactly once
\* per (matchId, pattern.type) key.
C2_PropagationComplete ==
    \A i \in 1..Len(valueBets), j \in 1..Len(savedPredictions) :
        Resolves(savedPredictions[j], valueBets[i]) =>
            LET embedded == OrEmpty(savedPredictions[j].valueBets)
            IN  /\ \E k \in 1..Len(embedded) : embedded[k] = valueBets[i]
                /\ Cardinality(KeyIndices(embedded, valueBets[i])) = 1

\* C3: after updateValueBet(b) with b's key present in the Value-Bet Store,
\* every record with that key in the store and every embedded entry with that
\* key in any prediction's valueBets equals b.
C3_UpdateCoherence ==
    [][ (Processed("update") /\ KeyIndices(valueBets, lastEvent'.arg) # {}) =>
          LET b == lastEvent'.arg
          IN  /\ \A i \in KeyIndices(valueBets', b) : valueBets'[i] = b
              /\ \A j \in 1..Len(savedPredictions') :
                    LET embedded == OrEmpty(savedPredictions'[j].valueBets)
                    IN  \A k \in KeyIndices(embedded, b) : embedded[k] = b ]_vars

\* An update to odds 2 has acted on a store holding two records with its key
\* and on a prediction that was saved embedding the odds-1 version.
C3_Witness ==
    /\ lastEvent.op = "update"
    /\ lastEvent.arg.odds = 2
    /\ Cardinality(KeyIndices(valueBets, lastEvent.arg)) >= 2
    /\ \E j \in 1..Len(savedPredictions) :
          /\ savedPredictions[j].match.away_team = "C"
          /\ savedPredictions[j].valueBets[1][1] = lastEvent.arg

\* C4: save(prediction) replaces the record with the same team pair at its
\* index, leaving length and every other index unchanged; with no such record
\* (also when only one team name matches) it appends at the end and all
\* existing records keep their positions.
C4_SaveIsUpsert ==
    [][ Processed("save") =>
          LET p == lastEvent'.arg
              hits == { i \in 1..Len(savedPredictions) :
                          /\ savedPredictions[i].match.home_team = p.match.home_team
                          /\ savedPredictions[i].match.away_team = p.match.away_team }
          IN  IF hits # {}
              THEN /\ Len(savedPredictions') = Len(savedPredictions)
                   /\ \E i \in hits :
                        /\ savedPredictions'[i] = p
                        /\ \A j \in 1..Len(savedPredictions) :
                              j # i => savedPredictions'[j] = savedPredictions[j]
              ELSE /\ Len(savedPredictions') = Len(savedPredictions) + 1
                   /\ savedPredictions'[Len(savedPredictions')] = p
                   /\ \A j \in 1..Len(savedPredictions) :
                         savedPredictions'[j] = savedPredictions[j] ]_vars

\* A-B was saved again on another date and kept index 1, ahead of A-C, which
\* shares only the home team and was appended as a record of its own.
C4_Witness ==
    /\ lastEvent.op = "save"
    /\ lastEvent.arg.match.date = "2024-01-02"
    /\ Len(savedPredictions) >= 2
    /\ savedPredictions[1] = lastEvent.arg
    /\ savedPredictions[2].match.home_team = "A"
    /\ savedPredictions[2].match.away_team = "C"

\* C5: processing save(p) twice in a row yields the same store as processing
\* it once, with exactly one record for p's fixture.
C5_SaveIdempotent ==
    [][ (Processed("save") /\ lastEvent.op = "save" /\ lastEvent'.arg = lastEvent.arg) =>
          /\ savedPredictions' = savedPredictions
          /\ Cardinality(FixtureIndices(savedPredictions', lastEvent'.arg)) = 1 ]_vars

\* The same prediction was saved twice in a row and sits at index 1 of a
\* store of several records.
C5_Witness ==
    /\ lastEvent.op = "save"
    /\ repeated
    /\ Len(savedPredictions) >= 2
    /\ savedPredictions[1] = lastEvent.arg

\* C6: saveValueBet(bet) appends bet at the end of the valueBets of every
\* prediction whose match resolves to bet.matchId (an absent valueBets counts
\* as empty), of all of them and not only the first, and leaves every other
\* prediction identical.
C6_AttachOnAdd ==
    [][ Processed("add") =>
          LET bet == lastEvent'.arg
          IN  /\ Len(savedPredictions') = Len(savedPredictions)
              /\ \A i \in 1..Len(savedPredictions) :
                    IF Resolves(savedPredictions[i], bet)
                    THEN /\ savedPredictions'[i].match = savedPredictions[i].match
                         /\ savedPredictions'[i].predictedResult =
                               savedPredictions[i].predictedResult
                         /\ savedPredictions'[i].valueBets # Absent
                         /\ savedPredictions'[i].valueBets[1] =
                               (IF savedPredictions[i].valueBets = Absent
                                THEN <<>>
                                ELSE savedPredictions[i].valueBets[1]) \o <<bet>>
                    ELSE savedPredictions'[i] = savedPredictions[i] ]_vars

\* A bet was added while two predictions resolved to it (one by composite
\* key, one by explicit id) and a third did not: both owners end with the
\* bet, the third still has no valueBets.
C6_Witness ==
    /\ lastEvent.op = "add"
    /\ Len(savedPredictions) = 3
    /\ \E i, j, k \in 1..3 :
          /\ i < j
          /\ Resolves(savedPredictions[i], lastEvent.arg)
          /\ Resolves(savedPredictions[j], lastEvent.arg)
          /\ ~Resolves(savedPredictions[k], lastEvent.arg)
          /\ savedPredictions[i].valueBets = Present(<<lastEvent.arg>>)
          /\ savedPredictions[j].valueBets # Absent
          /\ savedPredictions[j].valueBets[1][Len(savedPredictions[j].valueBets[1])] = lastEvent.arg
          /\ savedPredictions[k].valueBets = Absent

\* C7: updateValueBet(b) replaces, in every prediction, each embedded entry
\* with b's key by b at the same index, keeps the length, leaves predictions
\* without such an entry or without valueBets identical, and does so even
\* when the Value-Bet Store holds no record with that key.
C7_ReattachOnUpdate ==
    [][ Processed("update") =>
          LET b == lastEvent'.arg
          IN  /\ Len(savedPredictions') = Len(savedPredictions)
              /\ \A i \in 1..Len(savedPredictions) :
                    LET old == savedPredictions[i]
                        new == savedPredictions'[i]
                    IN  IF old.valueBets = Absent \/ KeyIndices(old.valueBets[1], b) = {}
                        THEN new = old
                        ELSE /\ new.match = old.match
                             /\ new.predictedResult = old.predictedResult
                             /\ new.valueBets # Absent
                             /\ Len(new.valueBets[1]) = Len(old.valueBets[1])
                             /\ \A k \in 1..Len(old.valueBets[1]) :
                                   new.valueBets[1][k] =
                                      IF k \in KeyIndices(old.valueBets[1], b)
                                      THEN b ELSE old.valueBets[1][k] ]_vars

\* An update to odds 2 reached the copy embedded in the A-C prediction (saved
\* with the odds-1 version) while the Value-Bet Store held no record with
\* that key, next to a prediction without valueBets.
C7_Witness ==
    /\ lastEvent.op = "update"
    /\ lastEvent.arg.odds = 2
    /\ KeyIndices(valueBets, lastEvent.arg) = {}
    /\ Len(valueBets) >= 1
    /\ \E i, j \in 1..Len(savedPredictions) :
          /\ savedPredictions[i].match.away_team = "C"
          /\ savedPredictions[i].valueBets = Present(<<lastEvent.arg>>)
          /\ savedPredictions[j].valueBets = Absent

\* C8 as stated: updateValueBet(b) replaces only the first record with b's
\* key; later records with that key keep their previous contents.
C8_ReplacesFirstOnly ==
    [][ Processed("update") =>
          LET b == lastEvent'.arg
              hits == KeyIndices(valueBets, b)
          IN  hits # {} =>
                \E first \in hits :
                    /\ \A i \in hits : first <= i
                    /\ valueBets' = [valueBets EXCEPT ![first] = b] ]_vars

\* C8 as amended: updateValueBet(b) replaces every record of the Value-Bet
\* Store whose key equals b's key, each at its own index; records with other
\* keys and the length of the store are unchanged.
C8_ReplacesEveryMatch ==
    [][ Processed("update") =>
          LET b == lastEvent'.arg
              hits == KeyIndices(valueBets, b)
          IN  /\ Len(valueBets') = Len(valueBets)
              /\ \A i \in 1..Len(valueBets) :
                    valueBets'[i] = IF i \in hits THEN b ELSE valueBets[i] ]_vars

\* An update has acted on a store whose two records carry its key: both are
\* now the updated bet.
C8_Witness ==
    /\ lastEvent.op = "update"
    /\ ~repeated
    /\ Len(valueBets) = 2
    /\ valueBets[1] = lastEvent.arg
    /\ valueBets[2] = lastEvent.arg

\* C9: updateValueBet(b) with no record of key (b.matchId, b.pattern.type) in
\* the Value-Bet Store leaves the store as it was; b is not inserted.
C9_UpdateMissIsNoOp ==
    [][ (Processed("update") /\ KeyIndices(valueBets, lastEvent'.arg) = {}) =>
          valueBets' = valueBets ]_vars

\* An update has acted on a non-empty store none of whose records has its key.
C9_Witness ==
    /\ lastEvent.op = "update"
    /\ Len(valueBets) = 2
    /\ KeyIndices(valueBets, lastEvent.arg) = {}

\* C10: saveValueBet(bet) leaves the Value-Bet Store equal to the previous
\* store followed by bet, also when the key is already present and also when
\* no prediction resolves to bet.matchId.
C10_AddAppends ==
    [][ Processed("add") => valueBets' = valueBets \o <<lastEvent'.arg>> ]_vars

\* A second bet with a key already in the store was added while the only
\* saved prediction did not resolve to it: both records remain.
C10_Witness ==
    /\ lastEvent.op = "add"
    /\ Len(valueBets) = 2
    /\ SameKey(valueBets[1], valueBets[2])
    /\ valueBets[1] # valueBets[2]
    /\ valueBets[2] = lastEvent.arg
    /\ Len(savedPredictions) >= 1
    /\ \A i \in 1..Len(savedPredictions) : ~Resolves(savedPredictions[i], lastEvent.arg)

\* C11: activePrediction() is the last element of the Prediction Store, or
\* null when the store is empty; activeBets() is that prediction's valueBets,
\* or the empty sequence when there is no active prediction or its valueBets
\* is absent.
C11_ActiveSelector ==
    LET active == getActivePrediction(rendered)
        bets == activePredictionBets(active)
        n == Len(savedPredictions)
    IN  IF n = 0
        THEN active = <<>> /\ bets = <<>>
        ELSE /\ active = <<savedPredictions[n]>>
             /\ bets = IF savedPredictions[n].valueBets = Absent
                       THEN <<>>
                       ELSE savedPredictions[n].valueBets[1]

\* The store holds several fixtures; the last one carries bets and the first
\* one does not.
C11_Witness ==
    /\ Len(savedPredictions) >= 2
    /\ savedPredictions[1].valueBets = Absent
    /\ Len(activePredictionBets(getActivePrediction(rendered))) >= 1
    /\ savedPredictions[1].match # savedPredictions[Len(savedPredictions)].match

\* C12: when the attach step runs, a bet resolves to a prediction exactly
\* when bet.matchId equals the prediction's match.id, or equals the string
\* home_team + "-" + away_team + "-" + date of the prediction's match.
C12_ResolutionRule ==
    [][ (Processed("add") /\ Len(rendered) > 0) =>
          LET bet == lastEvent'.arg
          IN  /\ Len(savedPredictions') = Len(savedPredictions)
              /\ \A i \in 1..Len(savedPredictions) :
                    LET m == savedPredictions[i].match
                        byId == m.id # "undefined" /\ m.id = bet.matchId
                        byKey == m.home_team \o "-" \o m.away_team \o "-" \o m.date
                                    = bet.matchId
                    IN  (savedPredictions'[i] # savedPredictions[i]) <=> (byId \/ byKey) ]_vars

\* A bet keyed "A-B-2024-01-01" was added to three predictions: the one
\* without an explicit id took it by its composite key, the one whose
\* explicit id is that string took it by id, the one with id "m1" did not.
C12_Witness ==
    /\ lastEvent.op = "add"
    /\ lastEvent.arg.matchId = "A-B-2024-01-01"
    /\ \E i, j, k \in 1..Len(savedPredictions) :
          /\ savedPredictions[i].match.id = Undefined
          /\ savedPredictions[i].match.date = "2024-01-01"
          /\ savedPredictions[i].valueBets = Present(<<lastEvent.arg>>)
          /\ savedPredictions[j].match.id = "A-B-2024-01-01"
          /\ savedPredictions[j].valueBets[1][Len(savedPredictions[j].valueBets[1])]
                = lastEvent.arg
          /\ savedPredictions[k].match.id = "m1"
          /\ savedPredictions[k].valueBets = Absent

\* C13: a success notification is emitted exactly once by each save that
\* appends a new fixture and by no other event.
C13_ToastOnAppendOnly ==
    [][ toasts' = toasts +
          (IF /\ Processed("save")
              /\ \A i \in 1..Len(savedPredictions) :
                    \/ savedPredictions[i].match.home_team # lastEvent'.arg.match.home_team
                    \/ savedPredictions[i].match.away_team # lastEvent'.arg.match.away_team
           THEN 1 ELSE 0) ]_vars

\* Two fixtures were appended and bets were added; the last event saved an
\* existing fixture again: still two notifications.
C13_Witness ==
    /\ lastEvent.op = "save"
    /\ repeated
    /\ Len(savedPredictions) = 2
    /\ Len(valueBets) >= 1
    /\ toasts = 2

\* C14: predictedWinner "home" gives home_win, "away" gives away_win, and any
\* other value, "draw" and an absent value included, gives draw; the adapter
\* yields a record whatever the winner value is.
C14_WinnerMapping ==
    (lastEvent.op = "adapt" /\ lastEvent.arg.homeTeam # "" /\ lastEvent.arg.awayTeam # "") =>
        /\ lastEvent.arg.result # <<>>
        /\ lastEvent.arg.result[1].predictedResult =
              CASE lastEvent.arg.advancedPrediction.predictedWinner = "home" -> "home_win"
                [] lastEvent.arg.advancedPrediction.predictedWinner = "away" -> "away_win"
                [] OTHER -> "draw"

\* The adapter was called with an absent winner and returned a draw.
C14_Witness ==
    /\ lastEvent.op = "adapt"
    /\ lastEvent.arg.advancedPrediction.predictedWinner = "undefined"
    /\ lastEvent.arg.result # <<>>
    /\ lastEvent.arg.result[1].predictedResult = "draw"

\* C15: the adapter yields null whenever homeTeam or awayTeam is the empty
\* string, and otherwise a prediction whose match carries those two names.
C15_EmptyInputRejected ==
    lastEvent.op = "adapt" =>
        IF lastEvent.arg.homeTeam = "" \/ lastEvent.arg.awayTeam = ""
        THEN lastEvent.arg.result = <<>>
        ELSE /\ Len(lastEvent.arg.result) = 1
             /\ lastEvent.arg.result[1].match.home_team = lastEvent.arg.homeTeam
             /\ lastEvent.arg.result[1].match.away_team = lastEvent.arg.awayTeam

\* The adapter was called with a home team and an empty away team and
\* returned null.
C15_Witness ==
    /\ lastEvent.op = "adapt"
    /\ lastEvent.arg.homeTeam = "A"
    /\ lastEvent.arg.awayTeam = ""
    /\ lastEvent.arg.result = <<>>

EmbeddedBets(prediction) == OrEmpty(prediction.valueBets)

\* C16: when savePrediction(p) is processed and saveValueBet(b) is the very
\* next event, with b resolving to p, the attach is decided against the store
\* as the save left it: p's record ends with b among its valueBets, also when
\* the store was empty before the save.
C16_AttachSeesPrecedingSave ==
    [][ (lastEvent.op = "save" /\ Processed("add")) =>
          LET p == lastEvent.arg
              b == lastEvent'.arg
          IN  \A i \in 1..Len(savedPredictions) :
                (savedPredictions[i] = p /\ Resolves(p, b)) =>
                    /\ Len(savedPredictions') = Len(savedPredictions)
                    /\ Len(EmbeddedBets(savedPredictions'[i])) >= 1
                    /\ EmbeddedBets(savedPredictions'[i])
                          [Len(EmbeddedBets(savedPredictions'[i]))] = b ]_vars

\* C17: propagation is atomic with its store mutation: in every state seen
\* after a render, the bet added last is in the Value-Bet Store and in every
\* prediction it resolves to, and after an update no record of the Value-Bet
\* Store and no embedded copy with the updated key differs from the update.
C17_PropagationAtomic ==
    (rendered = savedPredictions) =>
        /\ lastEvent.op = "add" =>
              /\ \E k \in 1..Len(valueBets) : valueBets[k] = lastEvent.arg
              /\ \A i \in 1..Len(savedPredictions) :
                    Resolves(savedPredictions[i], lastEvent.arg) =>
                        \E k \in 1..Len(EmbeddedBets(savedPredictions[i])) :
                            EmbeddedBets(savedPredictions[i])[k] = lastEvent.arg
        /\ lastEvent.op = "update" =>
              /\ \A k \in 1..Len(valueBets) :
                    SameKey(valueBets[k], lastEvent.arg) => valueBets[k] = lastEvent.arg
              /\ \A i \in 1..Len(savedPredictions) :
                    \A k \in 1..Len(EmbeddedBets(savedPredictions[i])) :
                        SameKey(EmbeddedBets(savedPredictions[i])[k], lastEvent.arg) =>
                            EmbeddedBets(savedPredictions[i])[k] = lastEvent.arg

\* C18: the team pair of the active prediction changes only when a save
\* appends a new fixture, after which the active prediction is the one just
\* saved; a replacing save, saveValueBet and updateValueBet leave it unchanged.
C18_ActiveChangesOnAppendOnly ==
    [][ LET before == getActivePrediction(rendered)
            after == getActivePrediction(rendered')
            appended == /\ Processed("save")
                        /\ \A i \in 1..Len(savedPredictions) :
                              \/ savedPredictions[i].match.home_team
                                    # lastEvent'.arg.match.home_team
                              \/ savedPredictions[i].match.away_team
                                    # lastEvent'.arg.match.away_team
        IN  IF appended
            THEN after = <<lastEvent'.arg>>
            ELSE /\ (before = <<>>) <=> (after = <<>>)
                 /\ before # <<>> =>
                       /\ after[1].match.home_team = before[1].match.home_team
                       /\ after[1].match.away_team = before[1].match.away_team ]_vars

\* The first fixture of a store of several was saved again: the active
\* prediction is still the last record, of another fixture.
C18_Witness ==
    /\ lastEvent.op = "save"
    /\ Len(savedPredictions) >= 2
    /\ savedPredictions[1] = lastEvent.arg
    /\ getActivePrediction(rendered) = <<savedPredictions[Len(savedPredictions)]>>
    /\ getActivePrediction(rendered)[1].match # lastEvent.arg.match

\* C19: save(prediction) leaves the Value-Bet Store unchanged; saveValueBet and
\* updateValueBet never change the number of predictions, their order, or any
\* field of a prediction other than valueBets.
C19_Frame ==
    [][ /\ Processed("save") => valueBets' = valueBets
        /\ (Processed("add") \/ Processed("update")) =>
              /\ Len(savedPredictions') = Len(savedPredictions)
              /\ \A i \in 1..Len(savedPredictions) :
                    /\ savedPredictions'[i].match = savedPredictions[i].match
                    /\ savedPredictions'[i].predictedResult
                          = savedPredictions[i].predictedResult ]_vars

\* A bet was added to a store of three predictions, one of which took it,
\* while the Value-Bet Store already held a record.
C19_Witness ==
    /\ lastEvent.op = "add"
    /\ Len(savedPredictions) = 3
    /\ Len(valueBets) = 2
    /\ \E i \in 1..3 : savedPredictions[i].valueBets = Present(<<lastEvent.arg>>)

\* C20: when every saved prediction carries no valueBets, each bet embedded
\* in a prediction's valueBets equals some record of the Value-Bet Store and
\* resolves to that prediction's match.
C20_EmbeddedBetsAreStoredAndOwned ==
    \A j \in 1..Len(savedPredictions) :
        LET m == savedPredictions[j].match
            embedded == IF savedPredictions[j].valueBets = Absent
                        THEN <<>>
                        ELSE savedPredictions[j].valueBets[1]
        IN  \A k \in 1..Len(embedded) :
                /\ \E i \in 1..Len(valueBets) : valueBets[i] = embedded[k]
                /\ \/ (m.id # "undefined" /\ m.id = embedded[k].matchId)
                   \/ m.home_team \o "-" \o m.away_team \o "-" \o m.date
                         = embedded[k].matchId

\* An adapter-made prediction took two bets and the first was then updated to
\* odds 2, beside a prediction with an explicit id that took none.
C20_Witness ==
    /\ lastEvent.op = "update"
    /\ lastEvent.arg.odds = 2
    /\ Len(savedPredictions) = 2
    /\ \E j, k \in 1..2 :
          /\ savedPredictions[j].valueBets # Absent
          /\ Len(savedPredictions[j].valueBets[1]) = 2
          /\ savedPredictions[j].valueBets[1][1] = lastEvent.arg
          /\ savedPredictions[k].match.id = "m1"
          /\ savedPredictions[k].valueBets = Absent

====
